---- MODULE Spec2Model ----
(***************************************************************************)
(* Model of twodfinite_well.py: bound states of an AlGaAs/GaAs finite      *)
(* quantum well computed with DOLFIN (mesh, subdomain marking, assembly)   *)
(* and SLEPc (generalized eigenvalue problem).                             *)
(*                                                                         *)
(* Units.  Energies are integers in units of 0.01 eV (vbar = 0.23 eV is    *)
(* 23).  Lengths are integers in units of 1/Scale Angstrom, so that the    *)
(* vertices (multiples of dtot/nel = 29 A) and the midpoints of the        *)
(* triangles (thirds of a cell width) are all exact.  DOLFIN_EPS (3e-16)   *)
(* is below the resolution of a double at every coordinate compared here   *)
(* except 0, so between(), near() and the +-DOLFIN_EPS test are exact      *)
(* comparisons on this grid.                                               *)
(***************************************************************************)
EXTENDS Integers, Sequences, FiniteSets

VARIABLES
    pc,          \* position of the script
    has_petsc,   \* has_linear_algebra_backend("PETSc")
    has_slepc,   \* has_slepc()
    events,      \* observable output and library calls, in order
    mesh,        \* TRUE once RectangleMesh has been built
    domains,     \* CellFunction: cell -> tag
    boundaries,  \* FacetFunction on the vertical facets: column -> tag
    V,           \* function space: degree and periodic slave -> master map
    bcs,         \* the list of DirichletBC objects
    H, M,        \* the two PETSc matrices
    eigs,        \* eigenpairs held by the solver after solve()
    r, dex, E, Psi, \* variables of the filter loop
    boundstates, \* len(E) - 1
    k,           \* loop variable of the marking loop and of the report loop
    px, hits     \* a probed coordinate and the layers whose inside() held

vars == <<pc, has_petsc, has_slepc, events, mesh, domains, boundaries,
          V, bcs, H, M, eigs, r, dex, E, Psi, boundstates, k, px, hits>>

-----------------------------------------------------------------------------
(* Bounds *)

\* largest number of eigenpairs the solver is taken to return
MaxEig == 3
\* eigenvalues are drawn within MaxOff of the spectrum floor and of vbar
MaxOff == 1

-----------------------------------------------------------------------------
(* Constants of the script *)

Scale == 3
dwell == 80
dbar == 250
dtot == 2*dbar + dwell
vwellNegative == 0 - 2
vwell == 0
vbar == 23
vpot == <<vbar, vwell, vbar>>
nel == 20
NoTag == 3

Abs(x) == IF x < 0 THEN -x ELSE x
MinOf(S) == CHOOSE x \in S : \A y \in S : x <= y

-----------------------------------------------------------------------------
(* Geometry: Layer, BoundaryPoint, PeriodicBoundary *)

\* layers[k].ends for k = 0, 1, 2 (Python index kk, TLA index kk + 1)
layers == << <<0, dbar>>, <<dbar, dbar + dwell>>, <<dbar + dwell, dtot>> >>

betweenHalfOpen(x, ends) == ends[1] * Scale <= x /\ x < ends[2] * Scale

\* dolfin between(x, (a, b)): a closed interval
between(x, ends) == ends[1] * Scale <= x /\ x <= ends[2] * Scale

\* Layer.inside(x, on_boundary) for layer kk at first coordinate x
LayerInside(kk, x) == between(x, layers[kk + 1])

\* BoundaryPoint.inside
BoundaryPointInside(bpt, x) == x = bpt * Scale

\* PeriodicBoundary.inside at the point p = <<x, y>>: -DOLFIN_EPS < y < DOLFIN_EPS
PeriodicInside(p) == p[2] < 1 /\ p[2] > -1

\* PeriodicBoundary.map
PeriodicMap(p) == <<p[1], p[2] - 1 * Scale>>

-----------------------------------------------------------------------------
(* Mesh: RectangleMesh(0, 0, dtot, dtot, nel, nel), 2 triangles per square *)

\* cell width
hcell == (Scale * dtot) \div nel

\* cells are numbered square by square along the rows, two triangles per
\* square
Cells == 0 .. 2 * nel * nel - 1
CellColumn(c) == (c \div 2) % nel
CellTriangle(c) == c % 2

\* vertices are <<x, y>>
Vertices == {<<i * hcell, j * hcell>> : i \in 0 .. nel, j \in 0 .. nel}

\* first coordinates of the three vertices of a cell (diagonal from the
\* lower left to the upper right corner of the square)
CellVertexXs(c) ==
    IF CellTriangle(c) = 0
    THEN <<CellColumn(c) * hcell, (CellColumn(c) + 1) * hcell, (CellColumn(c) + 1) * hcell>>
    ELSE <<CellColumn(c) * hcell, CellColumn(c) * hcell, (CellColumn(c) + 1) * hcell>>

\* first coordinate of the midpoint of a cell
CellMidpointX(c) ==
    (CellVertexXs(c)[1] + CellVertexXs(c)[2] + CellVertexXs(c)[3]) \div 3

\* SubDomain.mark sets the marker on an entity when all its vertices and its
\* midpoint are inside the subdomain
AllPointsInside(kk, c) ==
    /\ \A i \in 1 .. 3 : LayerInside(kk, CellVertexXs(c)[i])
    /\ LayerInside(kk, CellMidpointX(c))

\* layers[kk].mark(domains, kk)
MarkCells(d, kk) == [c \in Cells |-> IF AllPointsInside(kk, c) THEN kk ELSE d[c]]

\* left.mark(boundaries, 0); right.mark(boundaries, 1) on the vertical facets
\* of column line i (the other facets have vertices with two different x)
MarkFacets(b, bpt, tag) ==
    [i \in 0 .. nel |-> IF BoundaryPointInside(bpt, i * hcell) THEN tag ELSE b[i]]

\* vertices on the boundary of the mesh
BoundaryVertices ==
    {v \in Vertices : v[1] \in {0, Scale * dtot} \/ v[2] \in {0, Scale * dtot}}

\* constrained_domain = PeriodicBoundary(): a boundary vertex that is not in
\* the target domain and whose image under map is, is a slave of the vertex
\* at its image
PeriodicPairs ==
    {<<v, PeriodicMap(v)>> : v \in {w \in BoundaryVertices :
          ~PeriodicInside(w) /\ PeriodicInside(PeriodicMap(w))
          /\ PeriodicMap(w) \in Vertices}}

-----------------------------------------------------------------------------
(* Eigensolver: SLEPcEigenSolver(H, M), "smallest magnitude", "lapack" *)

\* The forms h and m: h = sum_k (f[k] grad u . grad v + Vpot[k] u v) dx(k),
\* m = sum_k u v dx(k), with f[k] > 0.  The Rayleigh quotient h(u,u)/m(u,u)
\* of every u is at least the smallest potential, so no eigenvalue of
\* H x = lambda M x lies below it.
EigFloor == MinOf({vpot[i] : i \in 1 .. 3})

\* eigenvalues the solver may return: near the floor and near the barrier
EigVals ==
    {e \in EigFloor .. vbar + MaxOff : e <= EigFloor + MaxOff \/ e >= vbar - MaxOff}

\* assemble(form, tensor = T): no boundary condition is passed, none applied
Assembled == [assembled |-> TRUE, bcs |-> {}]

\* largest magnitude of an eigenvector over the degrees of freedom on the
\* boundaries x = 0 and x = dtot: zero when a Dirichlet condition was applied
\* to both matrices at both (0), free otherwise (0: zero, 1: not zero)
BoundaryValues ==
    IF {0, dtot} \subseteq H.bcs /\ {0, dtot} \subseteq M.bcs THEN {0} ELSE {0, 1}

EigenPairs == [r : EigVals, bdry : BoundaryValues]

\* parameters["spectrum"] = "smallest magnitude"
SmallestMagnitude(s) ==
    \A i \in 1 .. Len(s) : \A j \in i .. Len(s) : Abs(s[i].r) <= Abs(s[j].r)

\* the sequences of exactly n eigenpairs in the order asked for
RECURSIVE OrderedPairs(_)
OrderedPairs(n) ==
    IF n = 0 THEN {<<>>}
    ELSE UNION {{Append(s, p) : p \in {q \in EigenPairs : SmallestMagnitude(Append(s, q))}} :
                s \in OrderedPairs(n - 1)}

\* what solve() can leave in the solver: any number of converged eigenpairs
\* up to MaxEig, in the order asked for
SolverResults == UNION {OrderedPairs(n) : n \in 0 .. MaxEig}

-----------------------------------------------------------------------------
(* Events *)

Ev(op) == [op |-> op, k |-> -1, e |-> 0, psi |-> -1]
EvK(op, kk) == [op |-> op, k |-> kk, e |-> 0, psi |-> -1]
EvE(kk, val) == [op |-> "print_E", k |-> kk, e |-> val, psi |-> -1]
EvPsi(kk, u) == [op |-> "plot_Psi", k |-> kk, e |-> 0, psi |-> u.idx]

-----------------------------------------------------------------------------
(* The script *)

InitProgram ==
    /\ has_petsc \in BOOLEAN
    /\ has_slepc \in BOOLEAN
    /\ events = <<>>
    /\ mesh = FALSE
    /\ domains = <<>>
    /\ boundaries = <<>>
    /\ V = [degree |-> 0, periodic |-> {}]
    /\ bcs = <<>>
    /\ H = [assembled |-> FALSE, bcs |-> {}]
    /\ M = [assembled |-> FALSE, bcs |-> {}]
    /\ eigs = <<>>
    /\ r = 0
    /\ dex = 0
    /\ E = <<>>
    /\ Psi = <<>>
    /\ boundstates = -1
    /\ k = 0

Init ==
    /\ pc = "check_petsc"
    /\ InitProgram
    /\ px = 0
    /\ hits = {}

AfterNoExit == "mesh"

\* where exit() leaves the script
AfterExit == "exited"

\* lines 25-27
CheckPETSc ==
    /\ pc = "check_petsc"
    /\ IF ~has_petsc
       THEN /\ events' = Append(events, Ev("diag_petsc"))
            /\ pc' = AfterExit
       ELSE /\ events' = events
            /\ pc' = "check_slepc"
    /\ UNCHANGED <<has_petsc, has_slepc, mesh, domains, k, boundaries, V, bcs,
                   H, M, eigs, r, dex, E, Psi, boundstates, px, hits>>

\* lines 29-31
CheckSLEPc ==
    /\ pc = "check_slepc"
    /\ IF ~has_slepc
       THEN /\ events' = Append(events, Ev("diag_slepc"))
            /\ pc' = AfterExit
       ELSE /\ events' = events
            /\ pc' = "mesh"
    /\ UNCHANGED <<has_petsc, has_slepc, mesh, domains, k, boundaries, V, bcs,
                   H, M, eigs, r, dex, E, Psi, boundstates, px, hits>>

\* line 120
CreateMesh ==
    /\ pc = "mesh"
    /\ mesh' = TRUE
    /\ pc' = "domains"
    /\ UNCHANGED <<has_petsc, has_slepc, events, domains, k, boundaries, V, bcs,
                   H, M, eigs, r, dex, E, Psi, boundstates, px, hits>>

\* line 124: the values of a new CellFunction are not initialised; g is
\* what the allocation holds (NoTag: any value that is not a layer index)
CreateDomains ==
    /\ pc = "domains"
    /\ \E g \in 0 .. NoTag : domains' = [c \in Cells |-> g]
    /\ k' = 0
    /\ pc' = "mark"
    /\ UNCHANGED <<has_petsc, has_slepc, events, mesh, boundaries, V, bcs,
                   H, M, eigs, r, dex, E, Psi, boundstates, px, hits>>

\* lines 125-126
MarkLayer ==
    /\ pc = "mark"
    /\ IF k < 3
       THEN /\ domains' = MarkCells(domains, k)
            /\ k' = k + 1
            /\ pc' = "mark"
       ELSE /\ UNCHANGED <<domains, k>>
            /\ pc' = "facets"
    /\ UNCHANGED <<has_petsc, has_slepc, events, mesh, boundaries, V, bcs,
                   H, M, eigs, r, dex, E, Psi, boundstates, px, hits>>

\* lines 130-132: the facets that neither mark sets keep what the allocation
\* held (NoTag); the script never reads boundaries afterwards
MarkBoundaries ==
    /\ pc = "facets"
    /\ boundaries' = MarkFacets(MarkFacets([i \in 0 .. nel |-> NoTag], 0, 0), dtot, 1)
    /\ pc' = "space"
    /\ UNCHANGED <<has_petsc, has_slepc, events, mesh, domains, k, V, bcs,
                   H, M, eigs, r, dex, E, Psi, boundstates, px, hits>>

\* lines 135-137
CreateSpace ==
    /\ pc = "space"
    /\ V' = [degree |-> 1, periodic |-> PeriodicPairs]
    /\ pc' = "plot_mesh"
    /\ UNCHANGED <<has_petsc, has_slepc, events, mesh, domains, k, boundaries, bcs,
                   H, M, eigs, r, dex, E, Psi, boundstates, px, hits>>

\* line 139
PlotMesh ==
    /\ pc = "plot_mesh"
    /\ events' = Append(events, Ev("plot_mesh"))
    /\ pc' = "bcs"
    /\ UNCHANGED <<has_petsc, has_slepc, mesh, domains, k, boundaries, V, bcs,
                   H, M, eigs, r, dex, E, Psi, boundstates, px, hits>>

\* line 141: the two objects are created and kept in a list
CreateBCs ==
    /\ pc = "bcs"
    /\ bcs' = <<[value |-> 0, at |-> 0], [value |-> 0, at |-> dtot]>>
    /\ pc' = "assemble_H"
    /\ UNCHANGED <<has_petsc, has_slepc, events, mesh, domains, k, boundaries, V,
                   H, M, eigs, r, dex, E, Psi, boundstates, px, hits>>

\* lines 154, 156
AssembleH ==
    /\ pc = "assemble_H"
    /\ H' = Assembled
    /\ events' = Append(events, Ev("assemble_H"))
    /\ pc' = "assemble_M"
    /\ UNCHANGED <<has_petsc, has_slepc, mesh, domains, k, boundaries, V, bcs,
                   M, eigs, r, dex, E, Psi, boundstates, px, hits>>

\* lines 155, 157
AssembleM ==
    /\ pc = "assemble_M"
    /\ M' = Assembled
    /\ events' = Append(events, Ev("assemble_M"))
    /\ pc' = "status"
    /\ UNCHANGED <<has_petsc, has_slepc, mesh, domains, k, boundaries, V, bcs,
                   H, eigs, r, dex, E, Psi, boundstates, px, hits>>

\* line 165
PrintStatus ==
    /\ pc = "status"
    /\ events' = Append(events, Ev("status"))
    /\ pc' = "solve"
    /\ UNCHANGED <<has_petsc, has_slepc, mesh, domains, k, boundaries, V, bcs,
                   H, M, eigs, r, dex, E, Psi, boundstates, px, hits>>

\* lines 160-162, 166
Solve ==
    /\ pc = "solve"
    /\ eigs' \in SolverResults
    /\ events' = Append(events, Ev("solve"))
    /\ pc' = "loop"
    /\ UNCHANGED <<has_petsc, has_slepc, mesh, domains, k, boundaries, V, bcs,
                   H, M, r, dex, E, Psi, boundstates, px, hits>>

\* lines 172-176
LoopInit ==
    /\ pc = "loop"
    /\ r' = 0
    /\ dex' = 0
    /\ E' = <<>>
    /\ Psi' = <<>>
    /\ pc' = "while"
    /\ UNCHANGED <<has_petsc, has_slepc, events, mesh, domains, k, boundaries, V,
                   bcs, H, M, eigs, boundstates, px, hits>>

LoopCondLe(rr) == rr <= vbar

\* line 178: while r<vbar
LoopCond(rr) == rr < vbar

\* line 178
LoopTest ==
    /\ pc = "while"
    /\ pc' = IF LoopCond(r) THEN "body" ELSE "count"
    /\ UNCHANGED <<has_petsc, has_slepc, events, mesh, domains, k, boundaries, V,
                   bcs, H, M, eigs, r, dex, E, Psi, boundstates, px, hits>>

AfterFetchCaught == "count"

\* where the error raised by get_eigenpair leaves the script
AfterFetchError == "aborted"

\* lines 181-187: get_eigenpair(dex) raises an error when eigenpair dex has
\* not been computed; nothing catches it
LoopBody ==
    /\ pc = "body"
    /\ events' = Append(events, EvK("get_eigenpair", dex))
    /\ IF dex < Len(eigs)
       THEN /\ r' = eigs[dex + 1].r
            /\ E' = Append(E, eigs[dex + 1].r)
            /\ Psi' = Append(Psi, [idx |-> dex, bdry |-> eigs[dex + 1].bdry])
            /\ dex' = dex + 1
            /\ pc' = "while"
       ELSE /\ UNCHANGED <<r, E, Psi, dex>>
            /\ pc' = AfterFetchError
    /\ UNCHANGED <<has_petsc, has_slepc, mesh, domains, k, boundaries, V,
                   bcs, H, M, eigs, boundstates, px, hits>>

CountAll(e) == Len(e)

\* line 190: len(E)-1
CountBound(e) == Len(e) - 1

\* line 190, and the start of the report loop
Count ==
    /\ pc = "count"
    /\ boundstates' = CountBound(E)
    /\ k' = 0
    /\ pc' = "for"
    /\ UNCHANGED <<has_petsc, has_slepc, events, mesh, domains, boundaries, V,
                   bcs, H, M, eigs, r, dex, E, Psi, px, hits>>

\* line 193
PrintE ==
    /\ pc = "for"
    /\ k < boundstates
    /\ events' = Append(events, EvE(k, E[k + 1]))
    /\ pc' = "plot_Psi"
    /\ UNCHANGED <<has_petsc, has_slepc, mesh, domains, k, boundaries, V,
                   bcs, H, M, eigs, r, dex, E, Psi, boundstates, px, hits>>

PlottedLast(kk) == Psi[Len(Psi)]

\* line 194: Psi[k]
Plotted(kk) == Psi[kk + 1]

\* line 194
PlotPsi ==
    /\ pc = "plot_Psi"
    /\ events' = Append(events, EvPsi(k, Plotted(k)))
    /\ k' = k + 1
    /\ pc' = "for"
    /\ UNCHANGED <<has_petsc, has_slepc, mesh, domains, boundaries, V,
                   bcs, H, M, eigs, r, dex, E, Psi, boundstates, px, hits>>

\* line 196
Interactive ==
    /\ pc = "for"
    /\ ~(k < boundstates)
    /\ events' = Append(events, Ev("interactive"))
    /\ pc' = "done"
    /\ UNCHANGED <<has_petsc, has_slepc, mesh, domains, k, boundaries, V,
                   bcs, H, M, eigs, r, dex, E, Psi, boundstates, px, hits>>

Next ==
    \/ CheckPETSc
    \/ CheckSLEPc
    \/ CreateMesh
    \/ CreateDomains
    \/ MarkLayer
    \/ MarkBoundaries
    \/ CreateSpace
    \/ PlotMesh
    \/ CreateBCs
    \/ AssembleH
    \/ AssembleM
    \/ PrintStatus
    \/ Solve
    \/ LoopInit
    \/ LoopTest
    \/ LoopBody
    \/ Count
    \/ PrintE
    \/ PlotPsi
    \/ Interactive

Spec == Init /\ [][Next]_vars

-----------------------------------------------------------------------------
(* Layer.inside as a function of the coordinate: each layer is asked in     *)
(* turn whether it contains a coordinate px of [0, dtot)                    *)

InitLayers ==
    /\ pc = "probe"
    /\ InitProgram
    /\ px \in 0 .. Scale * dtot - 1
    /\ hits = {}

ProbeLayer ==
    /\ pc = "probe"
    /\ k < 3
    /\ hits' = IF LayerInside(k, px) THEN hits \cup {k} ELSE hits
    /\ k' = k + 1
    /\ pc' = IF k + 1 = 3 THEN "probed" ELSE "probe"
    /\ UNCHANGED <<has_petsc, has_slepc, events, mesh, domains, boundaries, V,
                   bcs, H, M, eigs, r, dex, E, Psi, boundstates, px>>

NextLayers == ProbeLayer

SpecLayers == InitLayers /\ [][NextLayers]_vars

-----------------------------------------------------------------------------
(* Positions of the script *)

\* the marking loop has ended
MarkingDone ==
    pc \in {"facets", "space", "plot_mesh", "bcs", "assemble_H", "assemble_M",
            "status", "solve", "loop", "while", "body", "count", "for",
            "plot_Psi", "done", "aborted"}

\* the function space has been built
SpaceBuilt ==
    pc \in {"plot_mesh", "bcs", "assemble_H", "assemble_M", "status", "solve",
            "loop", "while", "body", "count", "for", "plot_Psi", "done", "aborted"}

\* solve() has returned
Solved == pc \in {"loop", "while", "body", "count", "for", "plot_Psi", "done", "aborted"}

\* the filter loop has ended normally
LoopEnded == pc \in {"count", "for", "plot_Psi", "done"}

\* boundstates has been computed: the reporting step
Reporting == pc \in {"for", "plot_Psi", "done"}

IsFetch(ev) == ev.op = "get_eigenpair"
Fetches == SelectSeq(events, IsFetch)
Printed == {i \in 1 .. Len(events) : events[i].op = "print_E"}
Plots == {i \in 1 .. Len(events) : events[i].op = "plot_Psi"}

-----------------------------------------------------------------------------
(* Claims *)

C2_FilterLoop ==
    /\ \A i \in 1 .. Len(Fetches) : Fetches[i].k = i - 1
    /\ Len(Psi) = Len(E)
    /\ \A i \in 1 .. Len(E) : E[i] = eigs[i].r /\ Psi[i].idx = i - 1
    /\ \A i \in 1 .. Len(E) - 1 : E[i] < vbar
    /\ pc = "body" => (Len(E) = 0 \/ E[Len(E)] < vbar)
    /\ LoopEnded =>
          /\ Len(E) >= 1
          /\ E[Len(E)] >= vbar
          /\ Len(Fetches) = Len(E)
    /\ Reporting =>
          /\ boundstates = Len(E) - 1
          /\ boundstates = Cardinality({i \in 1 .. Len(eigs) :
                                \A j \in 1 .. i : eigs[j].r < vbar})
          /\ \A kk \in 0 .. boundstates - 1 : E[kk + 1] < vbar

\* the loop stopped on an eigenvalue equal to vbar after one bound state and
\* left a computed eigenpair unfetched
C2_Witness ==
    /\ pc = "done"
    /\ boundstates = 1
    /\ E[2] = vbar
    /\ Len(eigs) = 3

\* C3: at the reporting step, boundstates is non-negative and strictly less
\* than the number of eigenpairs the solver computed.
C3_CountRange == Reporting => (0 <= boundstates /\ boundstates < Len(eigs))

\* every computed eigenpair but the last one is a bound state
C3_Witness ==
    /\ pc = "for"
    /\ boundstates >= 1
    /\ boundstates = Len(eigs) - 1

NothingBuilt ==
    /\ mesh = FALSE
    /\ domains = <<>>
    /\ ~H.assembled
    /\ ~M.assembled
    /\ eigs = <<>>

\* C4: if PETSc or SLEPc is absent the script prints the corresponding
\* diagnostic and terminates at once: no mesh, no plot, no assembly, no
\* solve, no status line, no E[k] line, no Psi[k] plot.  If both are present
\* no diagnostic is printed and the run goes on to the mesh step.
C4_BackendChecks ==
    /\ (~has_petsc /\ pc # "check_petsc") =>
          /\ pc = "exited"
          /\ events = <<Ev("diag_petsc")>>
          /\ NothingBuilt
    /\ (has_petsc /\ ~has_slepc /\ pc \notin {"check_petsc", "check_slepc"}) =>
          /\ pc = "exited"
          /\ events = <<Ev("diag_slepc")>>
          /\ NothingBuilt
    /\ pc = "exited" => ~ENABLED Next
    /\ (has_petsc /\ has_slepc) =>
          /\ pc # "exited"
          /\ \A i \in 1 .. Len(events) : events[i].op \notin {"diag_petsc", "diag_slepc"}
    /\ pc = "mesh" => (has_petsc /\ has_slepc /\ events = <<>> /\ NothingBuilt)

\* the script has exited on the SLEPc diagnostic
C4_Witness ==
    /\ pc = "exited"
    /\ has_petsc
    /\ ~has_slepc
    /\ events = <<Ev("diag_slepc")>>

\* the events of a run that fetched n eigenpairs and reported b bound states
ExpectedEvents(n, b) ==
    <<Ev("plot_mesh"), Ev("assemble_H"), Ev("assemble_M"), Ev("status"), Ev("solve")>>
    \o [i \in 1 .. n |-> EvK("get_eigenpair", i - 1)]
    \o [j \in 1 .. 2 * b |->
          IF j % 2 = 1
          THEN EvE((j - 1) \div 2, eigs[(j - 1) \div 2 + 1].r)
          ELSE [op |-> "plot_Psi", k |-> (j - 1) \div 2, e |-> 0, psi |-> (j - 1) \div 2]]
    \o <<Ev("interactive")>>

\* C5: in a successful run the events are, in this order: the mesh plot, the
\* two assemblies, one status line, the solve, the eigenpair fetches, then
\* for k = 0..boundstates-1 one line E[k] followed by one plot Psi[k] of the
\* eigenvector fetched at index k, then the interactive call; no E[k] line
\* is printed before the solve.
C5_EventOrder ==
    /\ pc = "done" => events = ExpectedEvents(Len(E), boundstates)
    /\ \A i \in Printed : \E j \in 1 .. i - 1 : events[j].op = "solve"
    /\ \A i \in Plots : i > 1 /\ events[i - 1].op = "print_E"
                        /\ events[i - 1].k = events[i].k

\* a successful run that reported two bound states
C5_Witness ==
    /\ pc = "done"
    /\ boundstates = 2
    /\ Len(events) = 13

AllBelow == \A i \in 1 .. Len(eigs) : eigs[i].r < vbar

\* C10: if every computed eigenvalue is < vbar the loop requests the index
\* equal to the number of computed eigenpairs; that fetch aborts the run,
\* which ends with no E[k] line and no Psi[k] plot although all the
\* eigenpairs were accumulated in E and Psi.  If some computed eigenvalue is
\* >= vbar the loop ends without requesting an index out of range.
C10_OutOfRangeFetch ==
    /\ (Solved /\ AllBelow) => ~LoopEnded
    /\ pc = "aborted" =>
          /\ AllBelow
          /\ events[Len(events)] = EvK("get_eigenpair", Len(eigs))
          /\ Len(E) = Len(eigs) /\ Len(Psi) = Len(eigs)
          /\ Printed = {} /\ Plots = {}
          /\ ~ENABLED Next
    /\ (Solved /\ ~AllBelow) =>
          /\ pc # "aborted"
          /\ \A i \in 1 .. Len(Fetches) : Fetches[i].k < Len(eigs)

\* the run aborted after accumulating two eigenpairs below vbar
C10_Witness ==
    /\ pc = "aborted"
    /\ Len(E) = 2
    /\ E[2] < vbar

\* C6: homogeneous Dirichlet conditions are enforced on the eigenproblem
\* that is solved: the DirichletBC objects created for left and right take
\* effect on H and M before the solve, and every reported bound state
\* Psi[k] is zero at the degrees of freedom on x = 0 and x = dtot.
C6_DirichletEnforced ==
    /\ Solved => \A i \in 1 .. Len(bcs) : bcs[i].at \in H.bcs /\ bcs[i].at \in M.bcs
    /\ Reporting => \A kk \in 0 .. boundstates - 1 : Psi[kk + 1].bdry = 0

\* the layers that contain the first coordinate of the midpoint of a cell
MidpointLayers(c) == {kk \in 0 .. 2 : LayerInside(kk, CellMidpointX(c))}

\* C8: after the marking loop every cell of the mesh carries exactly one
\* layer tag in {0, 1, 2}, the index of the layer interval that contains the
\* cell's x-axis centroid, also for the cells that straddle an interface; no
\* cell is left with a tag that none of the three layers assigned.
C8_CellsTaggedByCentroid ==
    MarkingDone =>
       \A c \in Cells :
          /\ domains[c] \in {0, 1, 2}
          /\ MidpointLayers(c) = {domains[c]}
          /\ \E kk \in 0 .. 2 : AllPointsInside(kk, c)

\* the vertices on the edge y = dtot of the mesh
TopEdge == {v \in Vertices : v[2] = Scale * dtot}

\* C9: the periodic constraint identifies the two opposite edges of the y
\* axis: for every point (x, y) on the edge y = dtot, PeriodicBoundary.map
\* yields a point with the same x that satisfies PeriodicBoundary.inside,
\* so the degrees of freedom of the two edges are shared.
C9_PeriodicIdentifies ==
    SpaceBuilt =>
       \A v \in TopEdge :
          /\ PeriodicMap(v)[1] = v[1]
          /\ PeriodicInside(PeriodicMap(v))
          /\ <<v, <<v[1], 0>> >> \in V.periodic

LayerEndsMeet ==
    /\ layers[1][2] = layers[2][1]
    /\ layers[2][2] = layers[3][1]
    /\ layers[3][2] = dtot
    /\ layers[1][1] = 0
    /\ dtot = 2 * dbar + dwell

\* C7 as stated: the three Layer intervals tile [0, dtot) with no gaps and
\* no overlaps; every coordinate x of [0, dtot) satisfies Layer.inside for
\* exactly one of the three layers.
C7_ExactTiling ==
    /\ LayerEndsMeet
    /\ pc = "probed" => Cardinality(hits) = 1

\* C7 amended: the ends of the three Layer intervals meet (layer1.end ==
\* layer2.start, layer2.end == layer3.start, layer3.end == dtot = 2*dbar +
\* dwell) and every coordinate x of [0, dtot) satisfies Layer.inside for at
\* least one layer: for exactly the layer k with start <= x < end, and in
\* addition for layer k-1 when x is the interface coordinate where layer k
\* starts (x = dbar, x = dbar + dwell), since the intervals are closed.
C7_ClosedTiling ==
    /\ LayerEndsMeet
    /\ pc = "probed" =>
          /\ hits # {}
          /\ \A kk \in 0 .. 2 :
                kk \in hits <=>
                   \/ (layers[kk + 1][1] * Scale <= px /\ px < layers[kk + 1][2] * Scale)
                   \/ px = layers[kk + 1][2] * Scale
          /\ Cardinality(hits) = IF px \in {dbar * Scale, (dbar + dwell) * Scale}
                                 THEN 2 ELSE 1

\* the interface coordinate x = dbar has been probed: layers 0 and 1 hold it
C7_Witness ==
    /\ pc = "probed"
    /\ px = dbar * Scale
    /\ hits = {0, 1}

====
